---- MODULE Spec2Model ----
(***************************************************************************)
(* Model of garbha_ai_app.py: the threshold classifier                     *)
(* classify_endometrium and the Streamlit script that stores a mock        *)
(* measurement in st.session_state and renders it.                         *)
(*                                                                         *)
(* Lengths are integers in hundredths of a millimetre (the script rounds   *)
(* its measurement to two decimals): 9.0 mm is 900, 6.99 mm is 699.        *)
(* Python's None is the empty tuple, a present value x the 1-tuple <<x>>.  *)
(***************************************************************************)
EXTENDS Integers, Sequences, FiniteSets, TLC

VARIABLES session_state, uploaded_file, button, pc,
          thickness_mm, returned,
          error_shown, results_shown, button_shown,
          run_start, via_rerun

vars == <<session_state, uploaded_file, button, pc, thickness_mm, returned,
          error_shown, results_shown, button_shown, run_start, via_rerun>>

None == << >>
Some(x) == <<x>>

\* Bounds of the classifier's input domain, in hundredths of a millimetre:
\* thicknesses -NegSpan .. MaxInput, plus None.
NegSpan == 150
MaxInput == 1650

Inputs == {None} \cup {Some(t) : t \in (0 - NegSpan)..MaxInput}

(***************************************************************************)
(* classify_endometrium(thickness_mm), lines 8-32.                         *)
(***************************************************************************)
\* Variants of the classifier with one comparison or one constant changed.
classify_endometrium_gt9(arg) ==
    IF arg = None THEN <<"N/A", "Please run the analysis first.">>
    ELSE LET t == arg[1] IN
         IF t > 900 /\ t <= 1500 THEN <<"Receptive (9-15 mm)", "green">>
         ELSE IF t > 700 /\ t < 900 THEN <<"Pre-Receptive (7-9 mm)", "orange">>
         ELSE <<"Non-Receptive (<7 mm or >15 mm)", "red">>

classify_endometrium_ge7(arg) ==
    IF arg = None THEN <<"N/A", "Please run the analysis first.">>
    ELSE LET t == arg[1] IN
         IF t >= 900 /\ t <= 1500 THEN <<"Receptive (9-15 mm)", "green">>
         ELSE IF t >= 700 /\ t < 900 THEN <<"Pre-Receptive (7-9 mm)", "orange">>
         ELSE <<"Non-Receptive (<7 mm or >15 mm)", "red">>

classify_endometrium_le16(arg) ==
    IF arg = None THEN <<"N/A", "Please run the analysis first.">>
    ELSE LET t == arg[1] IN
         IF t >= 900 /\ t <= 1600 THEN <<"Receptive (9-15 mm)", "green">>
         ELSE IF t > 700 /\ t < 900 THEN <<"Pre-Receptive (7-9 mm)", "orange">>
         ELSE <<"Non-Receptive (<7 mm or >15 mm)", "red">>

classify_endometrium_elif_first(arg) ==
    IF arg = None THEN <<"N/A", "Please run the analysis first.">>
    ELSE LET t == arg[1] IN
         IF t > 700 /\ t <= 900 THEN <<"Pre-Receptive (7-9 mm)", "orange">>
         ELSE IF t >= 900 /\ t <= 1500 THEN <<"Receptive (9-15 mm)", "green">>
         ELSE <<"Non-Receptive (<7 mm or >15 mm)", "red">>

classify_endometrium(arg) ==
    IF arg = None THEN <<"N/A", "Please run the analysis first.">>
    ELSE LET t == arg[1] IN
         IF t >= 900 /\ t <= 1500 THEN <<"Receptive (9-15 mm)", "green">>
         ELSE IF t > 700 /\ t < 900 THEN <<"Pre-Receptive (7-9 mm)", "orange">>
         ELSE <<"Non-Receptive (<7 mm or >15 mm)", "red">>

(***************************************************************************)
(* The classifier as a called function: thickness_mm is the argument of    *)
(* the call, returned the pair it returned (None before it has returned).  *)
(***************************************************************************)
CallClassify ==
    /\ pc = "call"
    /\ returned' = Some(classify_endometrium(thickness_mm))
    /\ pc' = "returned"
    /\ UNCHANGED <<session_state, uploaded_file, button, thickness_mm,
                   error_shown, results_shown, button_shown, run_start, via_rerun>>

\* The caller takes the next argument.
NextArgument ==
    /\ pc = "returned"
    /\ \E a \in Inputs : thickness_mm' = a
    /\ returned' = None
    /\ pc' = "call"
    /\ UNCHANGED <<session_state, uploaded_file, button,
                   error_shown, results_shown, button_shown, run_start, via_rerun>>

(***************************************************************************)
(* The script, lines 110-222.  Streamlit executes it top to bottom once    *)
(* per run; st.session_state survives between the runs of a session.       *)
(***************************************************************************)
\* st.session_state[k] = v
SetItem(s, k, v) == [x \in (DOMAIN s) \cup {k} |-> IF x = k THEN v ELSE s[x]]

\* The value a session holds under k; a key never written holds nothing.
Get(s, k) == IF k \in DOMAIN s THEN s[k] ELSE None

\* The files a user may put in the uploader.  Image.open raises on the
\* first kind, st.image on the second, the numpy processing on the third.
Files == {"scan_a.png", "scan_b.jpg", "not_an_image.png", "truncated.jpg", "huge.png"}
OpenRaises(f) == f = "not_an_image.png"
DisplayRaises(f) == f = "truncated.jpg"
ProcessRaises(f) == f = "huge.png"

\* random.uniform(6.5, 12.5) rounded to two decimals, line 134.
UniformLow == 650
UniformHigh == 1250
MockThickness == UniformLow..UniformHigh

\* Image.fromarray(processed_array) of the opened image, lines 140-154.
Processed(f) == [darkened |-> f, mask |-> "red box"]

\* A run starts with an empty page and no call of the classifier made.
StartRun(rerun) ==
    /\ pc' = "state"
    /\ thickness_mm' = None
    /\ returned' = None
    /\ error_shown' = FALSE
    /\ results_shown' = None
    /\ button_shown' = FALSE
    /\ run_start' = session_state
    /\ via_rerun' = rerun

\* The user puts a file in the uploader (replacing the one there, if any).
Upload ==
    /\ pc = "idle"
    /\ \E f \in Files : /\ uploaded_file # Some(f)
                        /\ uploaded_file' = Some(f)
    /\ button' = FALSE
    /\ StartRun(FALSE)
    /\ UNCHANGED session_state

\* The user removes the uploaded file.
RemoveFile ==
    /\ pc = "idle"
    /\ uploaded_file # None
    /\ uploaded_file' = None
    /\ button' = FALSE
    /\ StartRun(FALSE)
    /\ UNCHANGED session_state

\* The user presses "Analyze Endometrium", which the last run displayed.
PressAnalyze ==
    /\ pc = "idle"
    /\ button_shown
    /\ button' = TRUE
    /\ StartRun(FALSE)
    /\ UNCHANGED <<session_state, uploaded_file>>

\* Lines 110-113.
StateVariables ==
    /\ pc = "state"
    /\ LET s1 == IF "thickness" \notin DOMAIN session_state
                 THEN SetItem(session_state, "thickness", None)
                 ELSE session_state
       IN session_state' = IF "processed_image" \notin DOMAIN s1
                           THEN SetItem(s1, "processed_image", None)
                           ELSE s1
    /\ pc' = "uploader"
    /\ UNCHANGED <<uploaded_file, button, thickness_mm, returned,
                   error_shown, results_shown, button_shown, run_start, via_rerun>>

\* Variant: an empty uploader clears the stored analysis.
FileUploader_clears ==
    /\ pc = "uploader"
    /\ pc' = IF uploaded_file # None THEN "open" ELSE "guard"
    /\ session_state' = IF uploaded_file # None THEN session_state
                        ELSE SetItem(SetItem(session_state, "thickness", None),
                                     "processed_image", None)
    /\ UNCHANGED <<uploaded_file, button, thickness_mm, returned,
                   error_shown, results_shown, button_shown, run_start, via_rerun>>

\* Lines 116-118.
FileUploader ==
    /\ pc = "uploader"
    /\ pc' = IF uploaded_file # None THEN "open" ELSE "guard"
    /\ UNCHANGED <<session_state, uploaded_file, button, thickness_mm, returned,
                   error_shown, results_shown, button_shown, run_start, via_rerun>>

\* Line 121.
OpenImage ==
    /\ pc = "open"
    /\ pc' = IF OpenRaises(uploaded_file[1]) THEN "except" ELSE "display"
    /\ UNCHANGED <<session_state, uploaded_file, button, thickness_mm, returned,
                   error_shown, results_shown, button_shown, run_start, via_rerun>>

\* Lines 124-125.
DisplayImage ==
    /\ pc = "display"
    /\ pc' = IF DisplayRaises(uploaded_file[1]) THEN "except" ELSE "button"
    /\ UNCHANGED <<session_state, uploaded_file, button, thickness_mm, returned,
                   error_shown, results_shown, button_shown, run_start, via_rerun>>

\* Line 128.
AnalyzeButton ==
    /\ pc = "button"
    /\ button_shown' = TRUE
    /\ pc' = IF button THEN "measure" ELSE "guard"
    /\ UNCHANGED <<session_state, uploaded_file, button, thickness_mm, returned,
                   error_shown, results_shown, run_start, via_rerun>>

\* Lines 129-136.
MockMeasurement ==
    /\ pc = "measure"
    /\ \E mock_thickness \in MockThickness :
          session_state' = SetItem(session_state, "thickness", Some(mock_thickness))
    /\ pc' = "process"
    /\ UNCHANGED <<uploaded_file, button, thickness_mm, returned,
                   error_shown, results_shown, button_shown, run_start, via_rerun>>

\* Lines 138-154.
MockProcessedImage ==
    /\ pc = "process"
    /\ IF ProcessRaises(uploaded_file[1])
       THEN /\ pc' = "except"
            /\ UNCHANGED session_state
       ELSE /\ session_state' = SetItem(session_state, "processed_image",
                                        Some(Processed(uploaded_file[1])))
            /\ pc' = "rerun"
    /\ UNCHANGED <<uploaded_file, button, thickness_mm, returned,
                   error_shown, results_shown, button_shown, run_start, via_rerun>>

\* Variant: the except clause catches the exception st.rerun() raises.
Rerun_caught ==
    /\ pc = "rerun"
    /\ pc' = "except"
    /\ UNCHANGED <<session_state, uploaded_file, button, thickness_mm, returned,
                   error_shown, results_shown, button_shown, run_start, via_rerun>>

\* Lines 156-158: st.rerun() raises Streamlit's RerunException, which is no
\* subclass of Exception, so line 160 does not catch it: the run ends here
\* and the script runs again with the widgets as they are and the button
\* not pressed.
Rerun ==
    /\ pc = "rerun"
    /\ button' = FALSE
    /\ StartRun(TRUE)
    /\ UNCHANGED <<session_state, uploaded_file>>

\* Variant: the except branch reports the error and resets nothing.
ExceptBranch_report_only ==
    /\ pc = "except"
    /\ error_shown' = TRUE
    /\ pc' = "guard"
    /\ UNCHANGED <<session_state, uploaded_file, button, thickness_mm, returned,
                   results_shown, button_shown, run_start, via_rerun>>

\* Variant: the except branch resets 'thickness' only.
ExceptBranch_thickness_only ==
    /\ pc = "except"
    /\ error_shown' = TRUE
    /\ session_state' = SetItem(session_state, "thickness", None)
    /\ pc' = "guard"
    /\ UNCHANGED <<uploaded_file, button, thickness_mm, returned,
                   results_shown, button_shown, run_start, via_rerun>>

\* Lines 160-163.
ExceptBranch ==
    /\ pc = "except"
    /\ error_shown' = TRUE
    /\ session_state' = SetItem(SetItem(session_state, "thickness", None),
                                "processed_image", None)
    /\ pc' = "guard"
    /\ UNCHANGED <<uploaded_file, button, thickness_mm, returned,
                   results_shown, button_shown, run_start, via_rerun>>

\* Line 167.
ResultsGuard ==
    /\ pc = "guard"
    /\ pc' = IF session_state["thickness"] # None /\ session_state["processed_image"] # None
             THEN "results" ELSE "idle"
    /\ UNCHANGED <<session_state, uploaded_file, button, thickness_mm, returned,
                   error_shown, results_shown, button_shown, run_start, via_rerun>>

\* Lines 169-222.
ResultsSection ==
    /\ pc = "results"
    /\ LET thickness == session_state["thickness"]
           result == classify_endometrium(thickness)
       IN /\ thickness_mm' = thickness
          /\ returned' = Some(result)
          /\ results_shown' = Some([thickness |-> thickness,
                                     classification |-> result[1],
                                     color |-> result[2],
                                     image |-> session_state["processed_image"]])
    /\ pc' = "idle"
    /\ UNCHANGED <<session_state, uploaded_file, button,
                   error_shown, button_shown, run_start, via_rerun>>

\* A new session: nothing stored, nothing uploaded, the first run starting.
Init ==
    /\ session_state = << >>
    /\ uploaded_file = None
    /\ button = FALSE
    /\ pc = "state"
    /\ thickness_mm = None
    /\ returned = None
    /\ error_shown = FALSE
    /\ results_shown = None
    /\ button_shown = FALSE
    /\ run_start = << >>
    /\ via_rerun = FALSE

Next ==
    \/ Upload
    \/ RemoveFile
    \/ PressAnalyze
    \/ StateVariables
    \/ FileUploader
    \/ OpenImage
    \/ DisplayImage
    \/ AnalyzeButton
    \/ MockMeasurement
    \/ MockProcessedImage
    \/ Rerun
    \/ ExceptBranch
    \/ ResultsGuard
    \/ ResultsSection

Spec == Init /\ [][Next]_vars

\* The classifier called on every input of the bounded domain.
InitClassify ==
    /\ thickness_mm \in Inputs
    /\ returned = None
    /\ pc = "call"
    /\ session_state = << >>
    /\ uploaded_file = None
    /\ button = FALSE
    /\ error_shown = FALSE
    /\ results_shown = None
    /\ button_shown = FALSE
    /\ run_start = << >>
    /\ via_rerun = FALSE

NextClassify ==
    \/ CallClassify
    \/ NextArgument

SpecClassify == InitClassify /\ [][NextClassify]_vars

(***************************************************************************)
(* Properties of classify_endometrium, checked under SpecClassify.         *)
(***************************************************************************)
Receptive == <<"Receptive (9-15 mm)", "green">>
PreReceptive == <<"Pre-Receptive (7-9 mm)", "orange">>
NonReceptive == <<"Non-Receptive (<7 mm or >15 mm)", "red">>

\* The call has returned on a present thickness.
ReturnedOnNumber == returned # None /\ thickness_mm # None

\* C1: every present thickness t with 9.0 <= t <= 15.0, both bounds
\* included, is labelled "Receptive (9-15 mm)" with the colour green.
C1_Receptive ==
    (ReturnedOnNumber /\ thickness_mm[1] >= 900 /\ thickness_mm[1] <= 1500)
        => returned[1] = Receptive

C1_Witness ==
    /\ thickness_mm = Some(1500)
    /\ returned = Some(Receptive)

\* C2: every present thickness t with 7.0 < t < 9.0 is labelled
\* "Pre-Receptive (7-9 mm)" with the colour orange, and no thickness outside
\* that open interval gets this label.
C2_PreReceptive ==
    ReturnedOnNumber =>
        /\ (thickness_mm[1] > 700 /\ thickness_mm[1] < 900) => returned[1] = PreReceptive
        /\ returned[1][1] = PreReceptive[1] => (thickness_mm[1] > 700 /\ thickness_mm[1] < 900)

C2_Witness ==
    /\ thickness_mm = Some(899)
    /\ returned = Some(PreReceptive)

\* C3: every present thickness t with t < 7.0 or t > 15.0, zero and negative
\* values included, is labelled "Non-Receptive (<7 mm or >15 mm)" with the
\* colour red.
C3_NonReceptive ==
    (ReturnedOnNumber /\ (thickness_mm[1] < 700 \/ thickness_mm[1] > 1500))
        => returned[1] = NonReceptive

C3_Witness ==
    /\ thickness_mm # None
    /\ thickness_mm[1] < 0
    /\ returned = Some(NonReceptive)

SeverityTags == {"green", "orange", "red", "blue"}

\* C5: on an absent thickness the classifier returns the label "N/A" and, as
\* second component, a severity/display tag like every other branch does.
C5_AbsentIsTagged ==
    (returned # None /\ thickness_mm = None)
        => (returned[1][1] = "N/A" /\ returned[1][2] \in SeverityTags)

\* The four branch conditions as the table and the comments state them.
CondAbsent(arg) == arg = None
CondReceptive(arg) == arg # None /\ arg[1] >= 900 /\ arg[1] <= 1500
CondPreReceptive(arg) == arg # None /\ arg[1] > 700 /\ arg[1] < 900
CondNonReceptive(arg) == arg # None /\ (arg[1] < 700 \/ arg[1] > 1500)

HoldingConditions(arg) ==
    {c \in {"absent", "receptive", "pre", "non"} :
        \/ c = "absent" /\ CondAbsent(arg)
        \/ c = "receptive" /\ CondReceptive(arg)
        \/ c = "pre" /\ CondPreReceptive(arg)
        \/ c = "non" /\ CondNonReceptive(arg)}

LabelOf(c) ==
    IF c = "absent" THEN "N/A"
    ELSE IF c = "receptive" THEN Receptive[1]
    ELSE IF c = "pre" THEN PreReceptive[1]
    ELSE NonReceptive[1]

\* C6: for every input exactly one of the four stated conditions (absent;
\* 9.0 <= t <= 15.0; 7.0 < t < 9.0; t < 7.0 or t > 15.0) holds, and the
\* label returned is the one of that condition.
C6_ExactlyOneCondition ==
    returned # None =>
        /\ Cardinality(HoldingConditions(thickness_mm)) = 1
        /\ \A c \in HoldingConditions(thickness_mm) : returned[1][1] = LabelOf(c)

(***************************************************************************)
(* Properties of the script, checked under Spec.                           *)
(***************************************************************************)
thickness == Get(session_state, "thickness")
processed_image == Get(session_state, "processed_image")

\* The uploaded file makes this run raise inside the try block.
RunRaises ==
    /\ uploaded_file # None
    /\ \/ OpenRaises(uploaded_file[1])
       \/ DisplayRaises(uploaded_file[1])
       \/ button /\ ProcessRaises(uploaded_file[1])

\* The run is past the try block.
PastTry == pc \in {"guard", "results", "idle"}

\* What the results section shows of a session.
Shown(s) ==
    Some([thickness |-> s["thickness"],
          classification |-> classify_endometrium(s["thickness"])[1],
          color |-> classify_endometrium(s["thickness"])[2],
          image |-> s["processed_image"]])

\* C7: a run in which opening, displaying or processing the uploaded file
\* raises reports the failure, resets both session values to None and does
\* not render the results section, whatever an earlier analysis had stored.
C7_FailureResets ==
    (PastTry /\ RunRaises) =>
        /\ error_shown
        /\ thickness = None
        /\ processed_image = None
        /\ pc # "results"
        /\ results_shown = None

C7_Witness ==
    /\ pc = "idle"
    /\ RunRaises
    /\ error_shown
    /\ Get(run_start, "thickness") # None
    /\ Get(run_start, "processed_image") # None

\* The Analyze button was pressed on a file that loads and processes.
AnalyzeSucceeds ==
    /\ button
    /\ uploaded_file # None
    /\ ~RunRaises

\* C8: an Analyze press on a loadable image whose processing completes
\* stores a thickness in 6.50..12.50 and a processed image and ends the run
\* with a rerun (never at the except branch or the results guard); the run
\* that follows renders the results section with exactly that thickness
\* and its classification.
C8_AnalyzeThenResults ==
    /\ AnalyzeSucceeds => pc \notin {"except", "guard", "results", "idle"}
    /\ pc = "rerun" =>
          /\ thickness # None
          /\ thickness[1] \in UniformLow..UniformHigh
          /\ processed_image = Some(Processed(uploaded_file[1]))
    /\ via_rerun =>
          /\ run_start["thickness"] # None
          /\ run_start["thickness"][1] \in UniformLow..UniformHigh
          /\ run_start["processed_image"] # None
          /\ session_state = run_start
          /\ ~error_shown
    /\ (via_rerun /\ pc = "idle") => results_shown = Shown(run_start)

C8_Witness ==
    /\ via_rerun
    /\ pc = "idle"
    /\ results_shown # None
    /\ results_shown[1].thickness = Some(700)
    /\ results_shown[1].classification = NonReceptive[1]

\* C9: where the results guard is evaluated and where a run ends or starts,
\* 'thickness' is None exactly when 'processed_image' is None; the results
\* section never calls the classifier on None and never shows "N/A".
C9_BothOrNeither ==
    /\ pc \in {"state", "uploader", "guard", "results", "idle"}
          => ((thickness = None) <=> (processed_image = None))
    /\ returned # None => (thickness_mm # None /\ returned[1][1] # "N/A")
    /\ results_shown # None => results_shown[1].classification # "N/A"

C9_Witness ==
    /\ pc = "guard"
    /\ button
    /\ error_shown
    /\ ProcessRaises(uploaded_file[1])
    /\ Get(run_start, "processed_image") # None
    /\ thickness = None
    /\ processed_image = None

\* C10: a run without an Analyze press and without an exception leaves both
\* session values as they were when it started, also when the file was
\* replaced or removed, and so keeps showing the results stored earlier.
C10_Frame ==
    (~button /\ ~error_shown /\ pc # "except") =>
        /\ thickness = Get(run_start, "thickness")
        /\ processed_image = Get(run_start, "processed_image")
        /\ (pc = "idle" /\ Get(run_start, "thickness") # None
              /\ Get(run_start, "processed_image") # None)
               => results_shown = Shown(run_start)

C10_Witness ==
    /\ pc = "idle"
    /\ ~button
    /\ ~error_shown
    /\ ~via_rerun
    /\ uploaded_file = None
    /\ results_shown # None
    /\ results_shown = Shown(run_start)

====
